---- MODULE Spec2Model ----
(***************************************************************************)
(* Model of the coverage aggregation of tstat: newCoverage, percent,       *)
(* newPackageCoverage, PackageCoverage.add, toFunctions and isLower.       *)
(*                                                                         *)
(* Conventions.                                                            *)
(*  - A float64 percentage is modelled by its number of tenths of a        *)
(*    percent (33.3 is 333). percent() only ever produces such values.     *)
(*  - A Go string that the code indexes (a function name) is the sequence  *)
(*    of its bytes; "Do" is <<68, 111>>.                                   *)
(*  - A Go map is a TLA+ function on its key set; every `range` over a map *)
(*    and every maps.Values takes an arbitrary order of the keys.          *)
(*  - An operation that can panic returns a record whose field `panic`    *)
(*    says whether it did.                                                 *)
(***************************************************************************)
EXTENDS Integers, Sequences, FiniteSets, TLC

VARIABLES coverPkgs, fnPkgs, packages, covered, total, i, pc, result,
          run, first, fn, fns

vars == <<coverPkgs, fnPkgs, packages, covered, total, i, pc, result,
          run, first, fn, fns>>

(***************************************************************************)
(* Bounds of the model.                                                    *)
(***************************************************************************)
MaxStmts == 1
MaxFns == 2
MaxLine == 2
MaxAdds == 2

None == "none"

(***************************************************************************)
(* Generic helpers.                                                        *)
(***************************************************************************)
Range(s) == {s[k] : k \in DOMAIN s}

Perms(S) == {s \in [1..Cardinality(S) -> S] : Range(s) = S}

SeqsUpTo(S, n) == UNION {[1..k -> S] : k \in 0..n}

Abs(n) == IF n < 0 THEN -n ELSE n

(***************************************************************************)
(* percent: den = 0 gives 0; otherwise math.Round(num/den*1000)/10, i.e.   *)
(* the number of tenths nearest to 1000*num/den, halves away from zero.    *)
(* With the totals of this model (below 16) 1000*num/den is never within   *)
(* floating-point error of a half, so the float64 computation and the      *)
(* exact one agree.                                                        *)
(***************************************************************************)
RoundDiv(a, b) ==
    LET q == (2 * Abs(a) + Abs(b)) \div (2 * Abs(b))
    IN  IF (a < 0) = (b < 0) THEN q ELSE -q

percentFloor(num, den) ==
    IF den = 0 THEN 0 ELSE (num * 1000) \div den

percentNoScale(num, den) ==
    IF den = 0 THEN 0 ELSE RoundDiv(num * 10000, den)

percent(num, den) ==
    IF den = 0 THEN 0 ELSE RoundDiv(num * 1000, den)

(***************************************************************************)
(* isLower and toFunctions. f.Function[0] on an empty name is an index out *)
(* of range: the conversion panics.                                        *)
(***************************************************************************)
isLowerOffByOne(c) == c > 97 /\ c <= 122

isLower(c) == c >= 97 /\ c <= 122

toFunctions(fnList) ==
    IF \E k \in DOMAIN fnList : Len(fnList[k].Function) = 0
    THEN [panic |-> TRUE, fns |-> <<>>]
    ELSE [panic |-> FALSE,
          fns   |-> [k \in 1..Len(fnList) |->
                       [Name     |-> fnList[k].Function,
                        Percent  |-> fnList[k].Percent,
                        Internal |-> isLower(fnList[k].Function[1]),
                        File     |-> fnList[k].File,
                        Line     |-> fnList[k].Line]]]

(***************************************************************************)
(* newPackageCoverage: one FileCoverage per statement-side file, the       *)
(* counts copied, Functions empty; Files is maps.Values of a map, so every *)
(* order of the files is a possible result.                                *)
(***************************************************************************)
newFileCoverageSwapped(name, statements) ==
    [Name         |-> name,
     Functions    |-> <<>>,
     Percent      |-> statements.Percent,
     Stmts        |-> statements.CoveredStmts,
     CoveredStmts |-> statements.Stmts]

newFileCoverage(name, statements) ==
    [Name         |-> name,
     Functions    |-> <<>>,
     Percent      |-> statements.Percent,
     Stmts        |-> statements.Stmts,
     CoveredStmts |-> statements.CoveredStmts]

newPackageCoverage(stmts) ==
    {[Name  |-> stmts.Package,
      Files |-> [k \in 1..Len(order) |->
                    newFileCoverage(order[k], stmts.Files[order[k]])]] :
        order \in Perms(DOMAIN stmts.Files)}

(***************************************************************************)
(* PackageCoverage.add. The outer loop visits the file groups of pkgFn in  *)
(* `order`; the inner loop scans pc.Files for the first file of that name. *)
(* On a match the file's Functions are replaced and the method RETURNS, so *)
(* the groups later in `order` are not visited.                            *)
(***************************************************************************)
FirstMatch(files, name) ==
    IF \E k \in DOMAIN files : files[k].Name = name
    THEN CHOOSE k \in DOMAIN files :
            /\ files[k].Name = name
            /\ \A l \in DOMAIN files : files[l].Name = name => k <= l
    ELSE 0

RECURSIVE addFrom(_, _, _, _)
addFrom(pkgCov, pkgFn, order, n) ==
    IF n > Len(order) THEN [panic |-> FALSE, pkg |-> pkgCov]
    ELSE LET name == order[n]
             k    == FirstMatch(pkgCov.Files, name)
         IN  IF k = 0 THEN addFrom(pkgCov, pkgFn, order, n + 1)
             ELSE LET conv == toFunctions(pkgFn.Files[name].Functions)
                  IN  [panic |-> conv.panic,
                       pkg   |-> IF conv.panic THEN pkgCov
                                 ELSE [pkgCov EXCEPT !.Files[k].Functions = conv.fns]]

RECURSIVE addAppendFrom(_, _, _, _)
addAppendFrom(pkgCov, pkgFn, order, n) ==
    IF n > Len(order) THEN [panic |-> FALSE, pkg |-> pkgCov]
    ELSE LET name == order[n]
             k    == FirstMatch(pkgCov.Files, name)
         IN  IF k = 0 THEN addAppendFrom(pkgCov, pkgFn, order, n + 1)
             ELSE LET conv == toFunctions(pkgFn.Files[name].Functions)
                  IN  [panic |-> conv.panic,
                       pkg   |-> IF conv.panic THEN pkgCov
                                 ELSE [pkgCov EXCEPT !.Files[k].Functions = @ \o conv.fns]]

addAppend(pkgCov, pkgFn, order) == addAppendFrom(pkgCov, pkgFn, order, 1)

add(pkgCov, pkgFn, order) == addFrom(pkgCov, pkgFn, order, 1)

(***************************************************************************)
(* One iteration of the merge loop of newCoverage: the package is looked   *)
(* up by name; without a match the iteration does nothing.                 *)
(***************************************************************************)
mergeAny(pkgs, pkg, order) ==
    LET target == IF pkg.Package \in DOMAIN pkgs THEN pkg.Package
                  ELSE IF DOMAIN pkgs = {} THEN None
                  ELSE CHOOSE p \in DOMAIN pkgs : TRUE
    IN  IF target = None THEN [panic |-> FALSE, pkgs |-> pkgs]
        ELSE LET r == add(pkgs[target], pkg, order)
             IN  [panic |-> r.panic,
                  pkgs  |-> [pkgs EXCEPT ![target] = r.pkg]]

merge(pkgs, pkg, order) ==
    IF pkg.Package \notin DOMAIN pkgs THEN [panic |-> FALSE, pkgs |-> pkgs]
    ELSE LET r == add(pkgs[pkg.Package], pkg, order)
         IN  [panic |-> r.panic,
              pkgs  |-> [pkgs EXCEPT ![pkg.Package] = r.pkg]]

(***************************************************************************)
(* Inputs. The statement side is a list of PackageStatements with distinct *)
(* package names, each with its files' counts and the package totals (the  *)
(* sums of its files); the function side a list of PackageFunctions with   *)
(* distinct package names, each a non-empty map of file groups.            *)
(***************************************************************************)
RECURSIVE SumOver(_, _, _)
SumOver(files, names, field) ==
    IF names = {} THEN 0
    ELSE LET n == CHOOSE n \in names : TRUE
         IN  files[n][field] + SumOver(files, names \ {n}, field)

PackageStatements(name, files) ==
    [Package      |-> name,
     Files        |-> files,
     Stmts        |-> SumOver(files, DOMAIN files, "Stmts"),
     CoveredStmts |-> SumOver(files, DOMAIN files, "CoveredStmts")]

FileStatements ==
    {[Stmts |-> s, CoveredStmts |-> c, Percent |-> percent(c, s)] :
        s \in 0..MaxStmts, c \in 0..MaxStmts}

\* Every map from one of the given key sets to the given values.
Maps(keySets, values) == UNION {[ks -> values] : ks \in keySets}

\* Statement-side lists with every combination of counts.
StatsCoverInputs ==
    LET As == {PackageStatements("A", f) :
                 f \in Maps({{}, {"x.go"}}, FileStatements)}
        Bs == {PackageStatements("B", f) :
                 f \in Maps({{"x.go"}, {"x.go", "y.go"}}, FileStatements)}
    IN  {<<>>} \cup {<<a>> : a \in As} \cup {<<b>> : b \in Bs}
               \cup {<<a, b>> : a \in As, b \in Bs}

\* Statement-side lists of every shape, the counts fixed per file.
FixedStatements(name) ==
    IF name = "x.go" THEN [Stmts |-> 1, CoveredStmts |-> 1, Percent |-> 1000]
                     ELSE [Stmts |-> 1, CoveredStmts |-> 0, Percent |-> 0]

ShapeCoverInputs ==
    LET P(name, ks) == PackageStatements(name, [k \in ks |-> FixedStatements(k)])
        As == {P("A", ks) : ks \in {{"x.go"}, {"x.go", "y.go"}}}
        Bs == {P("B", ks) : ks \in {{"x.go"}, {"y.go"}, {"x.go", "y.go"}}}
    IN  {<<b>> : b \in Bs} \cup {<<a, b>> : a \in As, b \in Bs}
                           \cup {<<b, a>> : a \in As, b \in Bs}

\* The bytes of "Do", "do" and "".
NameDo == <<68, 111>>
Namedo == <<100, 111>>
NameEmpty == <<>>

Function(name, file, line, pct) ==
    [Function |-> name, File |-> file, Line |-> line, Percent |-> pct]

\* The function lists a file group of `file` may carry.
Groups(file) ==
    {[Functions |-> <<Function(NameDo, file, 1, 1000)>>],
     [Functions |-> <<Function(Namedo, file, 2, 500),
                      Function(NameDo, file, 1, 0)>>],
     [Functions |-> <<Function(NameEmpty, file, 1, 0)>>]}

PackageFunctions(name, files) == [Package |-> name, Files |-> files]

GroupMaps(keySets) ==
    UNION {{m \in [ks -> UNION {Groups(k) : k \in ks}] :
               \A k \in ks : m[k] \in Groups(k)} : ks \in keySets}

FuncInputs ==
    LET Bs == {PackageFunctions("B", m) :
                 m \in GroupMaps(SUBSET {"x.go", "y.go", "z.go"} \ {{}})}
        Cs == {PackageFunctions("C", m) : m \in GroupMaps({{"x.go"}})}
    IN  {<<>>} \cup {<<b>> : b \in Bs} \cup {<<c>> : c \in Cs}
               \cup {<<b, c>> : b \in Bs, c \in Cs}
               \cup {<<c, b>> : b \in Bs, c \in Cs}

SimpleFuncInputs ==
    {<<>>,
     <<PackageFunctions("B", [k \in {"x.go"} |->
          [Functions |-> <<Function(NameDo, k, 1, 1000)>>]])>>}

Inputs ==
    (StatsCoverInputs \X SimpleFuncInputs) \cup (ShapeCoverInputs \X FuncInputs)

(***************************************************************************)
(* newCoverage, one action per loop iteration.                             *)
(***************************************************************************)
Start(in) ==
    /\ coverPkgs = in[1]
    /\ fnPkgs = in[2]
    /\ packages = <<>>
    /\ covered = 0
    /\ total = 0
    /\ i = 1
    /\ pc = "build"
    /\ result = None
    /\ run = 1
    /\ first = None
    /\ fn = <<>>
    /\ fns = <<>>

Init == \E in \in Inputs : Start(in)

\* for _, pkg := range coverPkgs { ... }
Build ==
    /\ pc = "build"
    /\ i <= Len(coverPkgs)
    /\ LET pkg == coverPkgs[i]
       IN  /\ \E pkgCov \in newPackageCoverage(pkg) :
                packages' = [p \in DOMAIN packages \cup {pkg.Package} |->
                                IF p = pkg.Package THEN pkgCov ELSE packages[p]]
           /\ covered' = covered + pkg.CoveredStmts
           /\ total' = total + pkg.Stmts
    /\ i' = i + 1
    /\ UNCHANGED <<coverPkgs, fnPkgs, pc, result, run, first, fn, fns>>

\* the statement loop is over; the function loop starts
BuildDone ==
    /\ pc = "build"
    /\ i > Len(coverPkgs)
    /\ pc' = "merge"
    /\ i' = 1
    /\ UNCHANGED <<coverPkgs, fnPkgs, packages, covered, total, result,
                   run, first, fn, fns>>

\* for _, pkg := range fnPkgs { ... pkgCov.add(pkg) }
Merge ==
    /\ pc = "merge"
    /\ i <= Len(fnPkgs)
    /\ \E order \in Perms(DOMAIN fnPkgs[i].Files) :
         LET r == merge(packages, fnPkgs[i], order)
         IN  IF r.panic
             THEN pc' = "panic" /\ UNCHANGED <<packages, i>>
             ELSE packages' = r.pkgs /\ i' = i + 1 /\ UNCHANGED pc
    /\ UNCHANGED <<coverPkgs, fnPkgs, covered, total, result, run, first,
                   fn, fns>>

\* return &Coverage{Percent: percent(covered, total), Packages: maps.Values(packages)}
Return ==
    /\ pc = "merge"
    /\ i > Len(fnPkgs)
    /\ \E order \in Perms(DOMAIN packages) :
         result' = [Percent  |-> percent(covered, total),
                    Packages |-> [k \in 1..Len(order) |-> packages[order[k]]]]
    /\ pc' = "done"
    /\ UNCHANGED <<coverPkgs, fnPkgs, packages, covered, total, i, run,
                   first, fn, fns>>

Next == Build \/ BuildDone \/ Merge \/ Return

Spec == Init /\ [][Next]_vars

(***************************************************************************)
(* A second call on the same parsed inputs (CoverageParser.Stats is        *)
(* reusable): the first report is kept and newCoverage starts again.       *)
(***************************************************************************)
Again ==
    /\ pc = "done"
    /\ run = 1
    /\ first' = result
    /\ run' = 2
    /\ packages' = <<>>
    /\ covered' = 0
    /\ total' = 0
    /\ i' = 1
    /\ pc' = "build"
    /\ UNCHANGED <<coverPkgs, fnPkgs, result, fn, fns>>

InitTwice == \E in \in ShapeCoverInputs \X FuncInputs : Start(in)

NextTwice == Build \/ BuildDone \/ Merge \/ Return \/ Again

SpecTwice == InitTwice /\ [][NextTwice]_vars

(***************************************************************************)
(* PackageCoverage.add on its own: a package built from the statement side *)
(* receives up to MaxAdds function-side packages of its name, one after    *)
(* the other; fnPkgs records the ones applied so far.                      *)
(***************************************************************************)
FuncPackagesB ==
    {g \in {PackageFunctions("B", m) :
               m \in GroupMaps(SUBSET {"x.go", "y.go", "z.go"} \ {{}})} :
        \/ DOMAIN g.Files = {"x.go"}
        \/ \A k \in DOMAIN g.Files :
              \A j \in DOMAIN g.Files[k].Functions :
                  g.Files[k].Functions[j].Function # NameEmpty}

InitAdd ==
    /\ \E in \in {c \in ShapeCoverInputs : Len(c) = 1} :
         /\ coverPkgs = in
         /\ \E pkgCov \in newPackageCoverage(in[1]) :
              packages = [p \in {in[1].Package} |-> pkgCov]
    /\ fnPkgs = <<>>
    /\ covered = 0
    /\ total = 0
    /\ i = 1
    /\ pc = "add"
    /\ result = None
    /\ run = 1
    /\ first = None
    /\ fn = <<>>
    /\ fns = <<>>

Add ==
    /\ pc = "add"
    /\ Len(fnPkgs) < MaxAdds
    /\ \E pkgFn \in FuncPackagesB :
         /\ fnPkgs' = Append(fnPkgs, pkgFn)
         /\ \E order \in Perms(DOMAIN pkgFn.Files) :
              LET r == add(packages["B"], pkgFn, order)
              IN  /\ packages' = [packages EXCEPT !["B"] = r.pkg]
                  /\ pc' = IF r.panic THEN "panic" ELSE "add"
    /\ UNCHANGED <<coverPkgs, covered, total, i, result, run, first, fn, fns>>

SpecAdd == InitAdd /\ [][Add]_vars

(***************************************************************************)
(* toFunctions on its own: fn is the list of gofunc.Function records, fns  *)
(* the list it returns.                                                    *)
(***************************************************************************)
\* "", "Do", "do", "a", "z", "`", "{", "_d", "9", "Z", and a name starting
\* with the non-ASCII byte 0xC3
FunctionNames ==
    {NameEmpty, NameDo, Namedo, <<97>>, <<122>>, <<96>>, <<123>>,
     <<95, 100>>, <<57>>, <<90>>, <<195, 169>>}

FunctionRecords ==
    {Function(n, "x.go", l, p) :
        n \in FunctionNames, l \in 1..MaxLine, p \in {0, 875}}

InitFn ==
    /\ fn \in SeqsUpTo(FunctionRecords, MaxFns)
    /\ fns = <<>>
    /\ pc = "convert"
    /\ coverPkgs = <<>>
    /\ fnPkgs = <<>>
    /\ packages = <<>>
    /\ covered = 0
    /\ total = 0
    /\ i = 1
    /\ result = None
    /\ run = 1
    /\ first = None

Convert ==
    /\ pc = "convert"
    /\ LET r == toFunctions(fn)
       IN  /\ fns' = r.fns
           /\ pc' = IF r.panic THEN "panic" ELSE "done"
    /\ UNCHANGED <<coverPkgs, fnPkgs, packages, covered, total, i, result,
                   run, first, fn>>

SpecFn == InitFn /\ [][Convert]_vars

(***************************************************************************)
(* Definitions used to state the properties.                               *)
(***************************************************************************)
RECURSIVE SumSeq(_, _, _)
SumSeq(pkgs, field, n) ==
    IF n = 0 THEN 0 ELSE pkgs[n][field] + SumSeq(pkgs, field, n - 1)

SumCovered == SumSeq(coverPkgs, "CoveredStmts", Len(coverPkgs))
SumStmts == SumSeq(coverPkgs, "Stmts", Len(coverPkgs))

\* t tenths is 1000*num/den rounded to the nearest tenth, halves upwards
\* (num >= 0, den > 0)
NearestTenth(t, num, den) ==
    /\ 2 * Abs(t * den - 1000 * num) <= den
    /\ 2 * Abs(t * den - 1000 * num) = den => t * den > 1000 * num

StmtNames == {coverPkgs[k].Package : k \in DOMAIN coverPkgs}
FuncNames == {fnPkgs[k].Package : k \in DOMAIN fnPkgs}
StmtPkg(name) == CHOOSE s \in Range(coverPkgs) : s.Package = name
FuncPkg(name) == CHOOSE g \in Range(fnPkgs) : g.Package = name

FileNamesOf(pkgCov) == {pkgCov.Files[k].Name : k \in DOMAIN pkgCov.Files}

\* the converted records of the file group `key` of the function package g
Converted(g, key) == toFunctions(g.Files[key].Functions).fns

HasFunctions(pkgCov, name) ==
    \E k \in DOMAIN pkgCov.Files :
        pkgCov.Files[k].Name = name /\ pkgCov.Files[k].Functions # <<>>

\* C1: in every report newCoverage returns, Percent is the sum of the
\* packages' CoveredStmts over the sum of their Stmts, rounded to the nearest
\* tenth of a percent (not a mean of percentages), and 0 when the sum of
\* Stmts is 0; percent(1,3) = 33.3, percent(2,3) = 66.7, percent(8,15) = 53.3.
PercentIsTotalsWeighted ==
    pc = "done" =>
        /\ IF SumStmts = 0 THEN result.Percent = 0
           ELSE NearestTenth(result.Percent, SumCovered, SumStmts)
        /\ percent(1, 3) = 333 /\ percent(2, 3) = 667 /\ percent(8, 15) = 533
        /\ \A num \in 0..MaxStmts : percent(num, 0) = 0

\* two packages, 1 of 1 and 1 of 2 statements covered: 66.7, where the mean
\* of the package percentages is 75.0
PercentIsTotalsWeightedWitness ==
    /\ pc = "done"
    /\ Len(coverPkgs) = 2
    /\ coverPkgs[1].Stmts = 1 /\ coverPkgs[1].CoveredStmts = 1
    /\ coverPkgs[2].Stmts = 2 /\ coverPkgs[2].CoveredStmts = 1
    /\ result.Percent = 667

\* C2: in every report, for every package matched by name on both sides and
\* every file group whose key is the name of a statement-side file of the
\* package, that file's Functions are the converted records of the group.
EveryMatchedFileReceives ==
    pc = "done" =>
        \A k \in DOMAIN result.Packages :
            LET p == result.Packages[k]
            IN  p.Name \in FuncNames =>
                  \A j \in DOMAIN p.Files :
                      p.Files[j].Name \in DOMAIN FuncPkg(p.Name).Files =>
                          p.Files[j].Functions =
                              Converted(FuncPkg(p.Name), p.Files[j].Name)

\* C3: a package on the function side only gives no PackageCoverage and no
\* function record, and raises no error; a package on the statement side only
\* is in the report with every Functions list empty; function records reach
\* only the package of their own name.
UnmatchedPackageDrop ==
    /\ pc = "panic" => fnPkgs[i].Package \in StmtNames
    /\ pc = "done" =>
         \A k \in DOMAIN result.Packages :
             LET p == result.Packages[k]
             IN  /\ p.Name \in StmtNames
                 /\ \A j \in DOMAIN p.Files :
                      LET f == p.Files[j]
                      IN  f.Functions # <<>> =>
                            /\ p.Name \in FuncNames
                            /\ f.Name \in DOMAIN FuncPkg(p.Name).Files
                            /\ f.Functions = Converted(FuncPkg(p.Name), f.Name)
    /\ pc = "done" =>
         \A name \in StmtNames \ FuncNames :
             \E k \in DOMAIN result.Packages :
                 /\ result.Packages[k].Name = name
                 /\ \A j \in DOMAIN result.Packages[k].Files :
                      result.Packages[k].Files[j].Functions = <<>>

\* statement packages {A, B}, function packages {B, C}: B has functions
UnmatchedPackageDropWitness ==
    /\ pc = "done"
    /\ StmtNames = {"A", "B"}
    /\ FuncNames = {"B", "C"}
    /\ \E k \in DOMAIN result.Packages :
         /\ result.Packages[k].Name = "B"
         /\ HasFunctions(result.Packages[k], "x.go")

\* C4: in a matched package with a file group whose key is no statement-side
\* file, that group is dropped (no file of that name, its records nowhere)
\* and every group that does match has its functions on its file, whatever
\* the order of the groups.
UnmatchedFileDrop ==
    pc = "done" =>
        \A k \in DOMAIN result.Packages :
            LET p == result.Packages[k]
            IN  (/\ p.Name \in FuncNames
                 /\ DOMAIN FuncPkg(p.Name).Files \ FileNamesOf(p) # {}) =>
                    /\ FileNamesOf(p) = DOMAIN StmtPkg(p.Name).Files
                    /\ \A j \in DOMAIN p.Files :
                         p.Files[j].Name \in DOMAIN FuncPkg(p.Name).Files =>
                             p.Files[j].Functions =
                                 Converted(FuncPkg(p.Name), p.Files[j].Name)

\* a report as an unordered collection keyed by package and file name
Unordered(report) ==
    [Percent  |-> report.Percent,
     Packages |-> {[Name  |-> report.Packages[k].Name,
                    Files |-> Range(report.Packages[k].Files)] :
                      k \in DOMAIN report.Packages}]

\* C5: two runs of newCoverage over the same inputs give reports that are
\* equal as unordered collections keyed by package name and file name.
OrderIndependence ==
    (run = 2 /\ pc = "done") => Unordered(first) = Unordered(result)

\* C6: newCoverage never fails: no run panics, an empty function name
\* included.
NeverFails == pc # "panic"

\* C7: after any number of merges into a package, a file's Functions are
\* empty or the conversion of exactly one group merged under its name (never
\* a concatenation), every record sits on the file it names, and after a
\* merge whose only group is for a file of the package that file has exactly
\* the conversion of that group.
ReplacementNotAccumulation ==
    \A name \in DOMAIN packages :
        \A k \in DOMAIN packages[name].Files :
            LET f == packages[name].Files[k]
                last == fnPkgs[Len(fnPkgs)]
            IN  /\ \/ f.Functions = <<>>
                   \/ \E h \in DOMAIN fnPkgs :
                        /\ f.Name \in DOMAIN fnPkgs[h].Files
                        /\ f.Functions = Converted(fnPkgs[h], f.Name)
                /\ \A j \in DOMAIN f.Functions : f.Functions[j].File = f.Name
                /\ (pc = "add" /\ Len(fnPkgs) > 0
                        /\ DOMAIN last.Files = {f.Name}) =>
                       f.Functions = Converted(last, f.Name)

\* x.go merged twice, first with [Do], then with [do, Do]
ReplacementNotAccumulationWitness ==
    /\ pc = "add"
    /\ Len(fnPkgs) = 2
    /\ DOMAIN fnPkgs[1].Files = {"x.go"}
    /\ DOMAIN fnPkgs[2].Files = {"x.go"}
    /\ Len(fnPkgs[1].Files["x.go"].Functions) = 1
    /\ Len(fnPkgs[2].Files["x.go"].Functions) = 2
    /\ \E k \in DOMAIN packages["B"].Files :
         /\ packages["B"].Files[k].Name = "x.go"
         /\ Len(packages["B"].Files[k].Functions) = 2

\* C8: once the statement loop is over, and in the report, there is one
\* package per statement-side package name, its files are the statement-side
\* files of that package, and each file's Percent, Stmts and CoveredStmts are
\* the statement-side values; merging function data changes none of these.
MatchesStatements(pkgCovs) ==
    /\ {p.Name : p \in pkgCovs} = StmtNames
    /\ Cardinality(pkgCovs) = Cardinality(StmtNames)
    /\ \A p \in pkgCovs :
         LET s == StmtPkg(p.Name)
         IN  /\ FileNamesOf(p) = DOMAIN s.Files
             /\ Len(p.Files) = Cardinality(DOMAIN s.Files)
             /\ \A j \in DOMAIN p.Files :
                  LET f == p.Files[j]
                  IN  /\ f.Percent = s.Files[f.Name].Percent
                      /\ f.Stmts = s.Files[f.Name].Stmts
                      /\ f.CoveredStmts = s.Files[f.Name].CoveredStmts

StatementDataAuthoritative ==
    /\ pc \in {"merge", "panic", "done"} => MatchesStatements(Range(packages))
    /\ pc = "done" =>
         /\ MatchesStatements(Range(result.Packages))
         /\ Len(result.Packages) = Cardinality(StmtNames)

\* two statement packages, function data merged into B's x.go
StatementDataAuthoritativeWitness ==
    /\ pc = "done"
    /\ Len(coverPkgs) = 2
    /\ \E k \in DOMAIN result.Packages :
         /\ result.Packages[k].Name = "B"
         /\ Len(result.Packages[k].Files) = 2
         /\ HasFunctions(result.Packages[k], "x.go")

\* C9: whenever toFunctions returns, its list has the length of the input,
\* the k-th element copies the k-th record's name, percentage, file and line,
\* and Internal holds exactly when the first byte of the name is one of
\* 'a'..'z' (97..122).
ConversionIsOneToOne ==
    pc = "done" =>
        /\ Len(fns) = Len(fn)
        /\ \A k \in DOMAIN fn :
             /\ fns[k].Name = fn[k].Function
             /\ fns[k].Percent = fn[k].Percent
             /\ fns[k].File = fn[k].File
             /\ fns[k].Line = fn[k].Line
             /\ fns[k].Internal = (fn[k].Function[1] \in 97..122)

\* "Do" then "do": exported, then internal
ConversionIsOneToOneWitness ==
    /\ pc = "done"
    /\ Len(fn) = 2
    /\ fn[1].Function = NameDo /\ fn[2].Function = Namedo
    /\ fn[1].Line # fn[2].Line
    /\ ~fns[1].Internal /\ fns[2].Internal

\* C10 as stated: for every statement-side input, the Percent of the report
\* is between 0.0 and 100.0.
PercentInRange == pc = "done" => result.Percent \in 0..1000

\* C10 amended: when the summed covered count does not exceed the summed
\* total, the Percent of the report is between 0.0 and 100.0; and for every
\* input it is 0.0 when the summed total is 0.
PercentInRangeWhenCoveredWithinTotal ==
    pc = "done" =>
        /\ SumCovered <= SumStmts => result.Percent \in 0..1000
        /\ SumStmts = 0 => result.Percent = 0

\* every statement covered: 100.0
PercentInRangeWitness ==
    /\ pc = "done"
    /\ SumStmts > 1
    /\ SumCovered = SumStmts
    /\ result.Percent = 1000

====
